---- MODULE Spec2Model ----
(***************************************************************************)
(* Model of AlexaSiteAnalyzer (src/main.py): the daily domain-list cache,  *)
(* the batched concurrent fetch of the listed sites on one asyncio event   *)
(* loop, the per-site done-callback that folds each outcome into           *)
(* overall_stats, and the final ranking/averaging pass of run().           *)
(*                                                                         *)
(* A domain is named by its position in the ranked list (1 is the top      *)
(* site).  Durations (clock readings) are left out: nothing below reads    *)
(* them.  A float quotient a / b is kept as the exact fraction             *)
(* [num |-> a, den |-> b]; fractions are compared by cross-multiplying.    *)
(* An optional value (Python None or a value) is <<>> or <<value>>.        *)
(***************************************************************************)
EXTENDS Integers, Sequences, FiniteSets, TLC

\* ---- bounds of the model ------------------------------------------------
\* TOTAL_SITES_TO_PROCESS, BATCH_SIZE and SITES_PER_PAGE are 1000, 50 and
\* 100 in __init__; the model draws them from 1..Max* at construction.
MaxTotalSites == 4
MaxBatchSize == 2
MaxSitesPerPage == 2
\* longest domain list a cache file may hold
MaxDomains == 5
\* calendar days and run() calls per analyzer object (SpecDays only)
MaxDays == 2
MaxRuns == 2

VARIABLES
    TOTAL_SITES_TO_PROCESS, BATCH_SIZE, SITES_PER_PAGE, \* set in __init__
    today,          \* UTC calendar day read by datetime.utcnow()
    temp_dir,       \* does the directory of the cache files exist
    cache,          \* day -> optional domain list: the cache file of that day
    source_fetches, \* day -> number of runs that obtained the list from the
                    \* ranking source on that day, counted 0, 1, 2 (= many)
    overall_stats,  \* the OverallStats accumulator of the analyzer
    pc,             \* where run() is: idle, loop, waiting, done, raised
    exception,      \* the exception run() raised ("None" while none)
    domains,        \* run(): the domain list in use
    batch_num,      \* run(): the loop variable
    pending,        \* tasks of the event loop whose fetch is in flight
    ready,          \* done tasks whose done-callbacks are queued, in order
    tasks_created,  \* create_task calls since overall_stats was constructed
    failed,         \* domains whose fetch failed in the current run
    runs            \* run() calls on this analyzer object

vars == <<TOTAL_SITES_TO_PROCESS, BATCH_SIZE, SITES_PER_PAGE, today, temp_dir,
          cache, source_fetches, overall_stats, pc, exception, domains,
          batch_num, pending, ready, tasks_created, failed, runs>>

config == <<TOTAL_SITES_TO_PROCESS, BATCH_SIZE, SITES_PER_PAGE>>
filesystem == <<temp_dir, cache, source_fetches>>

\* ---- data ---------------------------------------------------------------
None == <<>>
Some(v) == <<v>>

\* `not x` of Python for an optional sequence: None and the empty value
Falsy(opt) == opt = None \/ opt[1] = <<>>

Days == 1..MaxDays

\* word_count_ranking before the final pass (attr default None)
NoRank == 0

\* The ranked list of the first n domains.
DomainList(n) == [i \in 1..n |-> i]

Min(a, b) == IF a < b THEN a ELSE b

\* Python s[b:e] for 0 <= b <= e (0-based, end exclusive, clipped)
Slice(s, b, e) == [i \in 1..(Min(e, Len(s)) - Min(b, Len(s))) |-> s[Min(b, Len(s)) + i]]

SeqToSet(s) == {s[i] : i \in 1..Len(s)}

\* A page is a sequence of pieces: "w" a non-blank character of prose,
\* " " a whitespace character, "script" / "style" a whole element of
\* that kind with its content.
Pages == { <<>>, <<"w">>, <<"w", " ", "w">>, <<"script">> }

HeaderLists == { <<"Server">>, <<"Server", "Set-Cookie", "Set-Cookie">> }

\* What the network gives for one GET: an error (timeout, connection or
\* decode error) or a body with its response headers.
Responses ==
    { [kind |-> "error", message |-> "Timeout", text |-> <<>>, headers |-> <<>>] }
    \cup
    { [kind |-> "ok", message |-> "", text |-> p, headers |-> h] :
        p \in Pages, h \in HeaderLists }

\* ---- ContentAnalyzer ----------------------------------------------------
\* soup('script') / soup('style') extracted, then get_text()
get_text(content) == SelectSeq(content, LAMBDA c : c \notin {"script", "style"})

RECURSIVE lstrip(_)
lstrip(t) == IF t # <<>> /\ Head(t) = " " THEN lstrip(Tail(t)) ELSE t

RECURSIVE rstrip(_)
rstrip(t) == IF t # <<>> /\ t[Len(t)] = " " THEN rstrip(SubSeq(t, 1, Len(t) - 1)) ELSE t

strip(t) == rstrip(lstrip(t))

\* len(re.split('\s+', text)): one more than the number of whitespace runs;
\* the split of the empty string is [''].
split_len(text) ==
    1 + Cardinality({i \in 1..Len(text) :
                       text[i] = " " /\ (i = 1 \/ text[i - 1] # " ")})

word_count(content) == split_len(strip(get_text(content)))

\* ---- SiteFetcher ---------------------------------------------------------
\* _process_site: the 5-tuple the task returns (duration left out).  Every
\* exception of the request is caught and becomes error_message.
process_site(url, resp) ==
    IF resp.kind = "error"
    THEN [url |-> url, content |-> None, headers |-> None,
          error |-> Some(resp.message)]
    ELSE [url |-> url, content |-> Some(resp.text),
          headers |-> Some(resp.headers), error |-> None]

\* ---- ResultAggregator ---------------------------------------------------
\* OverallStats() as attr constructs it
OverallStats ==
    [average_word_count |-> None, site_stats |-> <<>>,
     header_stats |-> <<>>, error_list |-> <<>>]

\* stats.percentage = float(stats.site_count) / float(TOTAL) * 100.0
header_percentage(site_count) ==
    [num |-> site_count * 100, den |-> TOTAL_SITES_TO_PROCESS]

\* tally_headers looping over headers instead of set(headers): a name the
\* response repeats is counted once per occurrence
tally_headers_per_occurrence(header_stats, headers) ==
    LET names == SeqToSet(headers)
        old(h) == IF h \in DOMAIN header_stats
                  THEN header_stats[h].site_count ELSE 0
        occurrences(h) == Cardinality({i \in 1..Len(headers) : headers[i] = h})
    IN  [h \in (DOMAIN header_stats) \cup names |->
           IF h \in names
           THEN [site_count |-> old(h) + occurrences(h),
                 percentage |-> header_percentage(old(h) + occurrences(h))]
           ELSE header_stats[h]]

\* the loop over set(headers): header_stats after one site's headers
tally_headers(header_stats, headers) ==
    LET names == SeqToSet(headers)
        old(h) == IF h \in DOMAIN header_stats
                  THEN header_stats[h].site_count ELSE 0
    IN  [h \in (DOMAIN header_stats) \cup names |->
           IF h \in names
           THEN [site_count |-> old(h) + 1,
                 percentage |-> header_percentage(old(h) + 1)]
           ELSE header_stats[h]]

\* record_error with the append left out: the outcome is dropped
record_error_lost(stats, future) == stats

\* the error branch of _analyze_site_output
record_error(stats, future) ==
    [stats EXCEPT !.error_list =
        Append(@, [domain_name |-> future.url, error_message |-> future.error])]

\* the success branch of _analyze_site_output
record_site(stats, future) ==
    [stats EXCEPT
        !.header_stats = tally_headers(@, future.headers[1]),
        !.site_stats = Append(@, [domain_name |-> future.url,
                                  word_count |-> word_count(future.content[1]),
                                  word_count_ranking |-> NoRank])]

\* _analyze_site_output: overall_stats after the done-callback of one task
analyze_site_output(stats, future) ==
    IF Falsy(future.content) \/ Falsy(future.headers)
    THEN record_error(stats, future)
    ELSE record_site(stats, future)

\* ---- the final pass of run() --------------------------------------------
\* sort_position without reverse=True: ascending word_count
sort_position_ascending(s, i) ==
    1 + Cardinality({j \in 1..Len(s) :
                       \/ s[j].word_count < s[i].word_count
                       \/ s[j].word_count = s[i].word_count /\ j < i})

\* Place of site_stats[i] in sorted(site_stats, key=word_count, reverse=True):
\* Python's sort is stable, also with reverse=True.
sort_position(s, i) ==
    1 + Cardinality({j \in 1..Len(s) :
                       \/ s[j].word_count > s[i].word_count
                       \/ s[j].word_count = s[i].word_count /\ j < i})

\* site.word_count_ranking = 1 + i, i the 0-based index of enumerate()
word_count_ranking(i) == 1 + i

rank_sites(s) ==
    [j \in 1..Len(s) |->
        [s[j] EXCEPT !.word_count_ranking = word_count_ranking(sort_position(s, j) - 1)]]

RECURSIVE word_count_sum(_)
word_count_sum(s) ==
    IF s = <<>> THEN 0 ELSE Head(s).word_count + word_count_sum(Tail(s))

\* average_word_count over the successes: word_count_sum / len(site_stats)
average_over_successes(sum) ==
    [num |-> sum, den |-> Len(overall_stats.site_stats)]

\* word_count_sum / self.TOTAL_SITES_TO_PROCESS
average_word_count(sum) == [num |-> sum, den |-> TOTAL_SITES_TO_PROCESS]

\* ---- BatchOrchestrator --------------------------------------------------
\* num_batches rounded up: a last, partial batch is counted as one more
num_batches_ceil == (TOTAL_SITES_TO_PROCESS + BATCH_SIZE - 1) \div BATCH_SIZE

\* range(0, int(TOTAL_SITES_TO_PROCESS / BATCH_SIZE))
num_batches == TOTAL_SITES_TO_PROCESS \div BATCH_SIZE

\* domains[begin_index:end_index] of batch batch_num
batch_slice(doms, n) == Slice(doms, n * BATCH_SIZE, BATCH_SIZE + n * BATCH_SIZE)

\* wait_returns as soon as every task is done, callbacks still queued
wait_returns_early == pending = {}

\* `await asyncio.wait(tasks)` resumes once the _on_completion callback of
\* every task has run; it was added to each task after _analyze_site_output,
\* and a task's callbacks run in the order they were added.
wait_returns == pending = {} /\ ready = <<>>

\* ---- construction --------------------------------------------------------
\* __init__: a fresh accumulator, nothing running
Constructed ==
    /\ overall_stats = OverallStats
    /\ pc = "idle"
    /\ exception = "None"
    /\ domains = <<>>
    /\ batch_num = 0
    /\ pending = {}
    /\ ready = <<>>
    /\ tasks_created = 0
    /\ failed = {}
    /\ runs = 0

\* One process, started on a day on which the cache directory and the
\* day's cache file may or may not exist already.
Init ==
    /\ TOTAL_SITES_TO_PROCESS \in 1..MaxTotalSites
    /\ BATCH_SIZE \in 1..MaxBatchSize
    /\ SITES_PER_PAGE \in 1..MaxSitesPerPage
    /\ today = 1
    /\ temp_dir \in BOOLEAN
    /\ \E file \in {None} \cup {Some(DomainList(n)) : n \in 0..MaxDomains} :
          /\ file # None => temp_dir
          /\ cache = [d \in Days |-> IF d = today THEN file ELSE None]
    /\ source_fetches = [d \in Days |-> 0]
    /\ Constructed

\* ---- Domain Source: _get_top_site_domains --------------------------------
\* run() enters: the locals of the previous call are gone
enter_run ==
    /\ pc = "idle"
    /\ runs' = runs + 1
    /\ failed' = {}
    /\ batch_num' = 0

\* os.path.exists(cache_filename): the list is read from today's file
load_from_cache ==
    /\ enter_run
    /\ cache[today] # None
    /\ domains' = cache[today][1]
    /\ pc' = "loop"
    /\ UNCHANGED <<config, today, filesystem, overall_stats, exception,
                   pending, ready, tasks_created>>

\* int(TOTAL_SITES_TO_PROCESS / SITES_PER_PAGE)
num_pages == TOTAL_SITES_TO_PROCESS \div SITES_PER_PAGE

\* one more run obtained the list from the source today
count_fetch(fetches) == [fetches EXCEPT ![today] = Min(@ + 1, 2)]

\* No file for today: num_pages pages are asked of the source, each holding
\* at most SITES_PER_PAGE domains; then os.makedirs(dirname), which raises
\* FileExistsError when the directory is there, then the file is written.
load_from_source(n) ==
    /\ enter_run
    /\ cache[today] = None
    /\ n <= num_pages * SITES_PER_PAGE
    /\ IF temp_dir
       THEN /\ pc' = "raised"
            /\ exception' = "FileExistsError"
            /\ UNCHANGED <<temp_dir, cache, domains>>
       ELSE /\ temp_dir' = TRUE
            /\ cache' = [cache EXCEPT ![today] = Some(DomainList(n))]
            /\ domains' = DomainList(n)
            /\ pc' = "loop"
            /\ UNCHANGED exception
    /\ source_fetches' = IF num_pages > 0 THEN count_fetch(source_fetches)
                         ELSE source_fetches
    /\ UNCHANGED <<config, today, overall_stats, pending, ready, tasks_created>>

\* urllib.request.urlopen raises on one of the pages: run() raises
source_unavailable ==
    /\ enter_run
    /\ cache[today] = None
    /\ num_pages > 0
    /\ pc' = "raised"
    /\ exception' = "URLError"
    /\ UNCHANGED <<config, today, filesystem, overall_stats, domains,
                   pending, ready, tasks_created>>

\* ---- BatchOrchestrator: the loop of run() and _query_top_sites -----------
\* One iteration enters run_until_complete(_query_top_sites(slice)): a task
\* per domain of the slice is created, then asyncio.wait(tasks), which raises
\* ValueError for an empty list of tasks.
begin_batch ==
    /\ pc = "loop"
    /\ batch_num < num_batches
    /\ LET slice == batch_slice(domains, batch_num)
       IN  /\ pending' = SeqToSet(slice)
           /\ tasks_created' = tasks_created + Len(slice)
           /\ IF slice = <<>>
              THEN pc' = "raised" /\ exception' = "ValueError"
              ELSE pc' = "waiting" /\ UNCHANGED exception
    /\ UNCHANGED <<config, today, filesystem, overall_stats, domains,
                   batch_num, ready, failed, runs>>

\* task_done where _process_site lets the exception of a failed fetch out:
\* run_until_complete re-raises it and run() ends
task_done_raises(d, resp) ==
    /\ d \in pending
    /\ pending' = pending \ {d}
    /\ IF resp.kind = "error"
       THEN /\ pc' = "raised"
            /\ exception' = resp.message
            /\ UNCHANGED ready
       ELSE /\ ready' = Append(ready, process_site(d, resp))
            /\ UNCHANGED <<pc, exception>>
    /\ failed' = IF resp.kind = "error" THEN failed \cup {d} ELSE failed
    /\ UNCHANGED <<config, today, filesystem, overall_stats,
                   domains, batch_num, tasks_created, runs>>

\* task_done where a failing fetch cancels the tasks still in flight
task_done_cancels(d, resp) ==
    /\ d \in pending
    /\ pending' = IF resp.kind = "error" THEN {} ELSE pending \ {d}
    /\ ready' = Append(ready, process_site(d, resp))
    /\ failed' = IF resp.kind = "error" THEN failed \cup {d} ELSE failed
    /\ UNCHANGED <<config, today, filesystem, overall_stats, pc, exception,
                   domains, batch_num, tasks_created, runs>>

\* The task of domain d finishes _process_site with the response resp: its
\* done-callbacks are queued on the loop.  Its siblings stay in flight.
task_done(d, resp) ==
    /\ d \in pending
    /\ pending' = pending \ {d}
    /\ ready' = Append(ready, process_site(d, resp))
    /\ failed' = IF resp.kind = "error" THEN failed \cup {d} ELSE failed
    /\ UNCHANGED <<config, today, filesystem, overall_stats, pc, exception,
                   domains, batch_num, tasks_created, runs>>

\* run_callbacks taking the task queued last (a stack, not a queue)
run_callbacks_lifo ==
    /\ ready # <<>>
    /\ overall_stats' = analyze_site_output(overall_stats, ready[Len(ready)])
    /\ ready' = SubSeq(ready, 1, Len(ready) - 1)
    /\ UNCHANGED <<config, today, filesystem, pc, exception, domains,
                   batch_num, pending, tasks_created, failed, runs>>

\* The loop runs the callbacks of the task at the head of its queue:
\* _analyze_site_output folds the outcome into overall_stats.
run_callbacks ==
    /\ ready # <<>>
    /\ overall_stats' = analyze_site_output(overall_stats, Head(ready))
    /\ ready' = Tail(ready)
    /\ UNCHANGED <<config, today, filesystem, pc, exception, domains,
                   batch_num, pending, tasks_created, failed, runs>>

\* asyncio.wait returns, the session closes, run_until_complete returns
batch_done ==
    /\ pc = "waiting"
    /\ wait_returns
    /\ batch_num' = batch_num + 1
    /\ pc' = "loop"
    /\ UNCHANGED <<config, today, filesystem, overall_stats, exception,
                   domains, pending, ready, tasks_created, failed, runs>>

\* final_pass placed inside the loop body: run after any batch
final_pass_in_loop ==
    /\ pc = "loop"
    /\ batch_num <= num_batches
    /\ overall_stats' =
          [overall_stats EXCEPT
              !.site_stats = rank_sites(@),
              !.average_word_count =
                  Some(average_word_count(word_count_sum(overall_stats.site_stats)))]
    /\ pc' = IF batch_num = num_batches THEN "done" ELSE "loop"
    /\ UNCHANGED <<config, today, filesystem, exception, domains, batch_num,
                   pending, ready, tasks_created, failed, runs>>

\* "Process overall stats": rank, average, return overall_stats
final_pass ==
    /\ pc = "loop"
    /\ batch_num = num_batches
    /\ overall_stats' =
          [overall_stats EXCEPT
              !.site_stats = rank_sites(@),
              !.average_word_count =
                  Some(average_word_count(word_count_sum(overall_stats.site_stats)))]
    /\ pc' = "done"
    /\ UNCHANGED <<config, today, filesystem, exception, domains, batch_num,
                   pending, ready, tasks_created, failed, runs>>

Next ==
    \/ load_from_cache
    \/ \E n \in 0..MaxDomains : load_from_source(n)
    \/ source_unavailable
    \/ begin_batch
    \/ \E d \in pending, resp \in Responses : task_done(d, resp)
    \/ run_callbacks
    \/ batch_done
    \/ final_pass

Spec == Init /\ [][Next]_vars

\* Every fetch settles (each has its own timeout of ASYNC_TIMEOUT_SECONDS)
\* and the event loop, run by run_until_complete, goes on running what is
\* ready: callbacks, the resumed _query_top_sites, the next iteration.
Fairness ==
    /\ WF_vars(begin_batch)
    /\ WF_vars(\E d \in pending, resp \in Responses : task_done(d, resp))
    /\ WF_vars(run_callbacks)
    /\ WF_vars(batch_done)
    /\ WF_vars(final_pass)

\* One process whose list will have TOTAL_SITES_TO_PROCESS domains or more
\* if the source answers in full: pages of one domain, and a cache file, if
\* there is one, written from such an answer.
InitLive ==
    /\ TOTAL_SITES_TO_PROCESS \in 1..MaxTotalSites
    /\ BATCH_SIZE \in 1..MaxBatchSize
    /\ SITES_PER_PAGE = 1
    /\ today = 1
    /\ temp_dir \in BOOLEAN
    /\ \E file \in {None} \cup {Some(DomainList(n)) :
                                  n \in TOTAL_SITES_TO_PROCESS..MaxDomains} :
          /\ file # None => temp_dir
          /\ cache = [d \in Days |-> IF d = today THEN file ELSE None]
    /\ source_fetches = [d \in Days |-> 0]
    /\ Constructed

SpecLive == InitLive /\ [][Next]_vars /\ Fairness

\* ---- several runs over several days --------------------------------------
\* The clock passes midnight (UTC).  run() reads the date once, on entry, so
\* only the days between two runs matter.
next_day ==
    /\ pc \in {"idle", "done", "raised"}
    /\ today < MaxDays
    /\ today' = today + 1
    /\ UNCHANGED <<config, filesystem, overall_stats, pc, exception, domains,
                   batch_num, pending, ready, tasks_created, failed, runs>>

\* The program is started again: process_command_line constructs a new
\* analyzer; the files of earlier runs are still there.
new_process ==
    /\ pc \in {"done", "raised"}
    /\ overall_stats' = OverallStats
    /\ pc' = "idle"
    /\ exception' = "None"
    /\ domains' = <<>>
    /\ batch_num' = 0
    /\ pending' = {}
    /\ ready' = <<>>
    /\ tasks_created' = 0
    /\ failed' = {}
    /\ runs' = 0
    /\ UNCHANGED <<config, today, filesystem>>

\* run() is called once more on the same analyzer object.
run_again ==
    /\ pc \in {"done", "raised"}
    /\ runs < MaxRuns
    /\ pc' = "idle"
    /\ exception' = "None"
    /\ domains' = <<>>
    /\ UNCHANGED <<config, today, filesystem, overall_stats, batch_num,
                   pending, ready, tasks_created, failed, runs>>

\* The first start of the program on a machine without cache directory,
\* with one site per batch, per page and per run.
InitDays ==
    /\ TOTAL_SITES_TO_PROCESS = 1
    /\ BATCH_SIZE = TOTAL_SITES_TO_PROCESS
    /\ SITES_PER_PAGE = TOTAL_SITES_TO_PROCESS
    /\ today = 1
    /\ temp_dir = FALSE
    /\ cache = [d \in Days |-> None]
    /\ source_fetches = [d \in Days |-> 0]
    /\ Constructed

NextDays == Next \/ next_day \/ new_process \/ run_again

SpecDays == InitDays /\ [][NextDays]_vars

\* ======================================================================
\* Properties
\* ======================================================================
site_stats == overall_stats.site_stats
error_list == overall_stats.error_list
header_stats == overall_stats.header_stats

Folded == Len(site_stats) + Len(error_list)

SitesOf(d) == Cardinality({i \in 1..Len(site_stats) : site_stats[i].domain_name = d})
ErrorsOf(d) == Cardinality({i \in 1..Len(error_list) : error_list[i].domain_name = d})
QueuedOf(d) == Cardinality({i \in 1..Len(ready) : ready[i].url = d})
InFlightOf(d) == IF d \in pending THEN 1 ELSE 0

\* domains of the list for which the current run has created a task
Attempted ==
    1..Min(Len(domains),
           (IF pc = "waiting" THEN batch_num + 1 ELSE batch_num) * BATCH_SIZE)

\* C1: once run() is between batches or past the loop, every domain it
\* created a task for has exactly one record (a SiteStats or an ErrorItem),
\* no other domain has one, and the two lists together are as long as the
\* number of tasks created.
C1_ExactlyOnceFolded ==
    pc \in {"loop", "done"} =>
        /\ Folded = tasks_created
        /\ \A d \in 1..MaxDomains :
              SitesOf(d) + ErrorsOf(d) = IF d \in Attempted THEN 1 ELSE 0

\* a run of three or more sites, some failed, some folded out of request order
C1_Witness ==
    /\ pc = "done"
    /\ tasks_created >= 3
    /\ error_list # <<>>
    /\ Len(site_stats) >= 2
    /\ site_stats[1].domain_name > site_stats[2].domain_name

\* C2: a failed fetch takes nothing with it.  Every domain a task was
\* created for is in flight, queued for its callback or recorded, exactly
\* one of the three; a failed domain, once folded, has one ErrorItem and no
\* SiteStats; run() raises inside the loop only on an empty slice, and
\* returns only after the last batch with every attempted domain recorded.
C2_BatchIsolation ==
    /\ \A d \in Attempted :
          InFlightOf(d) + QueuedOf(d) + SitesOf(d) + ErrorsOf(d) = 1
    /\ \A d \in failed :
          /\ d \notin pending
          /\ QueuedOf(d) = 0 => ErrorsOf(d) = 1 /\ SitesOf(d) = 0
    /\ (pc = "raised" /\ exception = "ValueError") =>
          batch_slice(domains, batch_num) = <<>>
    /\ pc = "done" =>
          /\ batch_num = num_batches
          /\ \A d \in Attempted : SitesOf(d) + ErrorsOf(d) = 1

\* the first site of a batch of two failed, its sibling and a site of the
\* next batch were recorded as successes
C2_Witness ==
    /\ pc = "done"
    /\ BATCH_SIZE = 2
    /\ 1 \in failed
    /\ ErrorsOf(1) = 1
    /\ SitesOf(2) = 1
    /\ SitesOf(3) = 1

\* C3: at most BATCH_SIZE fetches are in flight, and tasks are created only
\* when no task is in flight, no callback is queued and every task created
\* before has been folded.
C3_BatchesInSequence ==
    /\ [](Cardinality(pending) <= BATCH_SIZE)
    /\ [][tasks_created' > tasks_created =>
            /\ pending = {}
            /\ ready = <<>>
            /\ Folded = tasks_created]_vars

\* a second batch with BATCH_SIZE >= 2 fetches in flight
C3_Witness ==
    /\ pc = "waiting"
    /\ batch_num >= 1
    /\ BATCH_SIZE >= 2
    /\ Cardinality(pending) = BATCH_SIZE

\* C4 (as claimed): with a list shorter than TOTAL_SITES_TO_PROCESS, run()
\* does not raise once it has its list, and its report covers the list.
C4_AcceptsShortList ==
    (Len(domains) < TOTAL_SITES_TO_PROCESS
        /\ exception \notin {"FileExistsError", "URLError"}) =>
        /\ pc # "raised"
        /\ pc = "done" => Folded = Len(domains)

\* C5 (as claimed): in the report, percentage = site_count / attempted * 100
C5_PercentageOfAttempted ==
    pc = "done" =>
        \A h \in DOMAIN header_stats :
            header_stats[h].percentage.num * tasks_created
                = header_stats[h].site_count * 100 * header_stats[h].percentage.den

\* C6 (as claimed): on no day does more than one run obtain the list from
\* the source, and once a run has, that day's cache file exists.
C6_OneFetchPerDay ==
    \A d \in Days :
        /\ source_fetches[d] <= 1
        /\ source_fetches[d] = 1 => cache[d] # None

\* C7: in the report the rankings are exactly 1..K, and a smaller ranking
\* never goes with a smaller word_count.
C7_RanksArePermutation ==
    pc = "done" =>
        LET K == Len(site_stats) IN
        /\ {site_stats[i].word_count_ranking : i \in 1..K} = 1..K
        /\ \A i, j \in 1..K :
              site_stats[i].word_count_ranking < site_stats[j].word_count_ranking
                  => site_stats[i].word_count >= site_stats[j].word_count

\* three or more records, folded in an order that is not the ranking
C7_Witness ==
    /\ pc = "done"
    /\ Len(site_stats) >= 3
    /\ site_stats[1].word_count < site_stats[2].word_count
    /\ site_stats[2].word_count_ranking = 1

RECURSIVE TotalWords(_, _)
TotalWords(s, k) == IF k = 0 THEN 0 ELSE s[k].word_count + TotalWords(s, k - 1)

\* C8: the reported average is the sum of the recorded word counts over
\* TOTAL_SITES_TO_PROCESS.
C8_AverageOverTarget ==
    pc = "done" =>
        /\ overall_stats.average_word_count # None
        /\ overall_stats.average_word_count[1].num * TOTAL_SITES_TO_PROCESS
             = TotalWords(site_stats, Len(site_stats))
                 * overall_stats.average_word_count[1].den

\* a report with failures and successes, fewer successes than the target
C8_Witness ==
    /\ pc = "done"
    /\ failed # {}
    /\ Len(site_stats) >= 2
    /\ Len(site_stats) < TOTAL_SITES_TO_PROCESS
    /\ overall_stats.average_word_count[1].num >= 3

\* C9 (as claimed): of two sites with equal word_count, the one earlier in
\* the domain list gets the smaller ranking, whatever the completion order.
C9_TiesByDomainRank ==
    pc = "done" =>
        \A i, j \in 1..Len(site_stats) :
            (site_stats[i].word_count = site_stats[j].word_count
                /\ site_stats[i].domain_name < site_stats[j].domain_name)
              => site_stats[i].word_count_ranking < site_stats[j].word_count_ranking

\* C10 (as claimed): run() goes through ceil(N / B) batches and, given a
\* list of N or more domains, attempts exactly the first N.
C10_CeilBatches ==
    pc = "done" =>
        /\ batch_num = (TOTAL_SITES_TO_PROCESS + BATCH_SIZE - 1) \div BATCH_SIZE
        /\ Len(domains) >= TOTAL_SITES_TO_PROCESS
              => tasks_created = TOTAL_SITES_TO_PROCESS

\* run() has its domain list (from the cache file or from the source)
HasList == pc \in {"loop", "waiting", "done"} \/ exception = "ValueError"

\* C11 (as claimed): with an empty domain list run() never returns a report
\* and ends in SourceUnavailable, no batch begun.
C11_EmptyListUnavailable ==
    (HasList /\ domains = <<>> /\ pc \in {"done", "raised"}) =>
        /\ pc = "raised"
        /\ exception = "SourceUnavailable"

\* C12: every header's site_count is at least 1 and at most the number of
\* SiteStats records, at every point of a run and in the report.
C12_HeaderCountBounded ==
    \A h \in DOMAIN header_stats :
        /\ header_stats[h].site_count >= 1
        /\ header_stats[h].site_count <= Len(site_stats)

\* every success so far repeated the Set-Cookie header, failures were
\* folded too, and the count is that of the successes
C12_Witness ==
    /\ Len(site_stats) >= 2
    /\ error_list # <<>>
    /\ "Set-Cookie" \in DOMAIN header_stats
    /\ header_stats["Set-Cookie"].site_count = Len(site_stats)

\* C13 (as claimed): the report of a run holds the records of that run only:
\* as many as the run created tasks, at most one per domain.
C13_FreshAccumulator ==
    pc = "done" =>
        /\ Folded = Cardinality(Attempted)
        /\ \A d \in 1..MaxDomains : SitesOf(d) + ErrorsOf(d) <= 1

\* no record has a ranking and there is no average
Unranked ==
    /\ overall_stats.average_word_count = None
    /\ \A i \in 1..Len(site_stats) : site_stats[i].word_count_ranking = NoRank

\* C14: until run() is past its last batch nothing is ranked or averaged;
\* the pass runs from the loop's end with no fetch in flight and no callback
\* queued; and once it has run, overall_stats no longer changes.
C14_FinalPassOnceAtEnd ==
    /\ [](pc # "done" => Unranked)
    /\ [](pc = "done" =>
            /\ batch_num = num_batches
            /\ pending = {}
            /\ ready = <<>>
            /\ overall_stats.average_word_count # None)
    /\ [][(~Unranked' /\ Unranked) => (pc = "loop" /\ pc' = "done")]_vars
    /\ [][pc = "done" => overall_stats' = overall_stats]_vars

\* a report after two or more batches, with two or more ranked records
C14_Witness ==
    /\ pc = "done"
    /\ batch_num >= 2
    /\ Len(site_stats) >= 2
    /\ error_list # <<>>

\* C15 (as claimed): every ErrorItem is that of a failed fetch and carries
\* its error message, and every failed fetch, once folded, has an ErrorItem.
C15_ErrorIffFailed ==
    /\ \A i \in 1..Len(error_list) :
          /\ error_list[i].domain_name \in failed
          /\ error_list[i].error_message # None
    /\ \A d \in failed : QueuedOf(d) = 0 => ErrorsOf(d) = 1

\* C16 (as claimed): the fold of a failed fetch appends one ErrorItem and
\* leaves site_stats and header_stats alone; the fold of a fetch that ended
\* without error appends one SiteStats and leaves error_list alone; while
\* fetching, both lists only grow at their end.
C16_FoldFrame ==
    [][pc = "waiting" /\ overall_stats' # overall_stats =>
         /\ ready # <<>>
         /\ IF Head(ready).error # None
            THEN /\ Len(overall_stats'.error_list) = Len(error_list) + 1
                 /\ SubSeq(overall_stats'.error_list, 1, Len(error_list)) = error_list
                 /\ overall_stats'.site_stats = site_stats
                 /\ overall_stats'.header_stats = header_stats
            ELSE /\ Len(overall_stats'.site_stats) = Len(site_stats) + 1
                 /\ SubSeq(overall_stats'.site_stats, 1, Len(site_stats)) = site_stats
                 /\ overall_stats'.error_list = error_list]_vars

\* the domain of the record a step has appended to either list
NewRecordDomain ==
    IF Len(overall_stats'.site_stats) > Len(site_stats)
    THEN overall_stats'.site_stats[Len(overall_stats'.site_stats)].domain_name
    ELSE overall_stats'.error_list[Len(overall_stats'.error_list)].domain_name

\* C17: outcomes are folded one at a time in the order the tasks completed:
\* a completing task joins the end of the callback queue while its siblings
\* stay in flight, and each fold records the task at the head of the queue,
\* whether or not siblings are still in flight.
C17_FoldedInCompletionOrder ==
    [][/\ Len(ready') > Len(ready) =>
            \E d \in pending :
                /\ pending' = pending \ {d}
                /\ Len(ready') = Len(ready) + 1
                /\ SubSeq(ready', 1, Len(ready)) = ready
                /\ ready'[Len(ready')].url = d
       /\ (Len(overall_stats'.site_stats) + Len(overall_stats'.error_list) # Folded) =>
            /\ ready # <<>>
            /\ Len(overall_stats'.site_stats) + Len(overall_stats'.error_list) = Folded + 1
            /\ NewRecordDomain = Head(ready).url
            /\ ready' = Tail(ready)
            /\ pending' = pending]_vars

\* the second site of a batch is recorded, the first is still in flight
C17_Witness ==
    /\ pc = "waiting"
    /\ batch_num = 0
    /\ BATCH_SIZE >= 2
    /\ 1 \in pending
    /\ SitesOf(2) + ErrorsOf(2) = 1

\* number of words of a text: the places where a run of non-blanks begins
NumberOfWords(text) ==
    Cardinality({i \in 1..Len(text) :
                   text[i] # " " /\ (i = 1 \/ text[i - 1] = " ")})

\* C18 (as claimed): the SiteStats appended for a page has as word_count the
\* number of whitespace-separated words of the page's text without its
\* script and style elements, 0 when that text is empty.
C18_WordCountOfVisibleText ==
    [][Len(overall_stats'.site_stats) = Len(site_stats) + 1 =>
         overall_stats'.site_stats[Len(site_stats) + 1].word_count
             = NumberOfWords(get_text(Head(ready).content[1]))]_vars

\* C19: with a list of TOTAL_SITES_TO_PROCESS domains or more, run() never
\* raises once it has the list, and from the start of its loop it goes on to
\* return the report, whatever the fetches give.
C19_RunReturnsReport ==
    /\ [](HasList /\ Len(domains) >= TOTAL_SITES_TO_PROCESS => pc # "raised")
    /\ (pc = "loop" /\ Len(domains) >= TOTAL_SITES_TO_PROCESS) ~> (pc = "done")

\* a report after two or more batches with failed and successful fetches
C19_Witness ==
    /\ pc = "done"
    /\ Len(domains) >= TOTAL_SITES_TO_PROCESS
    /\ batch_num >= 2
    /\ failed # {}
    /\ site_stats # <<>>

\* C20: a run creates at most TOTAL_SITES_TO_PROCESS tasks, for the first
\* domains of the list without a gap; the domains in flight are those of the
\* slice of the current batch, each in the batch its index gives; nothing is
\* recorded for a domain beyond the first TOTAL_SITES_TO_PROCESS.
C20_AtMostTargetAttempted ==
    /\ tasks_created <= TOTAL_SITES_TO_PROCESS
    /\ tasks_created = Cardinality(Attempted)
    /\ \A d \in pending :
          /\ d <= TOTAL_SITES_TO_PROCESS
          /\ domains[d] = d
          /\ (d - 1) \div BATCH_SIZE = batch_num
    /\ \A d \in 1..MaxDomains :
          d > TOTAL_SITES_TO_PROCESS => SitesOf(d) + ErrorsOf(d) + QueuedOf(d) = 0

\* a report from a list longer than the target: two batches or more, and
\* exactly the first TOTAL_SITES_TO_PROCESS domains recorded
C20_Witness ==
    /\ pc = "done"
    /\ Len(domains) > TOTAL_SITES_TO_PROCESS
    /\ batch_num >= 2
    /\ BATCH_SIZE >= 2
    /\ tasks_created = TOTAL_SITES_TO_PROCESS
    /\ \A d \in 1..TOTAL_SITES_TO_PROCESS : SitesOf(d) + ErrorsOf(d) = 1

====
